---- MODULE Spec2Model ----
(***************************************************************************)
(* A model of VirtualList (src/vlist.js): the windowing / recycling engine *)
(* of a virtually rendered scrollable list.                                *)
(*                                                                         *)
(* Lengths (row height, viewport height, scroll offset, element top) are   *)
(* integers counted in sub-pixel units, SubPx units to one CSS pixel, so   *)
(* that a fractional row height (1.5px) is representable and parseInt of   *)
(* an element's "top" style truncates as it does in the browser.           *)
(***************************************************************************)
EXTENDS Integers, Sequences, FiniteSets, TLC

\* ------------------------------------------------------------- bounds
MaxHeight == 4
MaxViewport == 4
MaxItems == 4
MaxPool == 7
MaxChanges == 2
SubPx == 2

Heights == {MaxHeight - 1, MaxHeight}
Viewports == {0, MaxViewport - 1, MaxViewport}
ItemCounts == {0, 2, MaxItems}
\* the offsets the user scrolls to
Offsets == {0, 2 * MaxHeight - 1, 2 * MaxHeight + 1}
\* the heights the caller passes to setRowHeight
AskedHeights == {0 - 1, 0} \cup Heights
\* the rows the caller asks to see
AskedRows == {0, 1, MaxItems - 1}

\* ---------------------------------------------------- program constants
Quiescence == 100
CacheFactor == 3
BufferPct == 66
NotFound == -1
\* JavaScript's non-finite numbers (and undefined, which compares like NaN)
NaN == -2
Infinity == -3

\* ------------------------------------------------------------ helpers
Max(a, b) == IF a >= b THEN a ELSE b
Min(a, b) == IF a <= b THEN a ELSE b
Abs(a) == IF a < 0 THEN 0 - a ELSE a
Finite(x) == x # NaN /\ x # Infinity
Truthy(x) == x # 0 /\ x # NaN

\* Math.ceil(h / itemHeight), h >= 0
JsCeilDiv(h, ih) ==
  IF ih = 0 THEN (IF h = 0 THEN NaN ELSE Infinity)
  ELSE (h + ih - 1) \div ih

\* Math.floor(pos / itemHeight); division by zero gives a non-finite number
JsFloorDiv(pos, ih) ==
  IF ih = 0 THEN (IF pos = 0 THEN NaN ELSE Infinity)
  ELSE pos \div ih

\* x * k in JavaScript arithmetic, k a positive finite factor
JsTimes(x, k) == IF Finite(x) THEN x * k ELSE x

\* _screenItemsLen * .66 * itemHeight, kept in hundredths
JsMaxBuffer(s, ih) ==
  IF s = NaN THEN NaN
  ELSE IF s = Infinity THEN (IF ih = 0 THEN NaN ELSE Infinity)
  ELSE s * BufferPct * ih

\* Math.abs(d) > maxBuffer  (maxBuffer in hundredths)
ExceedsBuffer(d, mb) ==
  IF Finite(mb) THEN Abs(d) * 100 > mb ELSE FALSE

\* parseInt("<top>px"): the integer number of CSS pixels
ParseInt(top) == (top \div SubPx) * SubPx

\* the host clamps scrollTop to [0, scrollHeight - clientHeight]; a container
\* with no height (not in the document, not laid out) does not scroll
MaxScrollTop(sh, vh) == IF vh = 0 THEN 0 ELSE Max(0, sh - vh)
ClampScroll(v, sh, vh) == Max(0, Min(v, MaxScrollTop(sh, vh)))

\* --------------------------------------------------------------- state
VARIABLES
  pinFirstRow,      \* config.pinFirstRow
  itemsLen,         \* this.items.length
  viewportHeight,   \* height of the container as laid out by the host
  rowNatural,       \* height the host lays a freshly inserted row out with
  itemHeight,       \* this.itemHeight (0: unknown)
  totalRows,        \* this.totalRows
  screenItemsLen,   \* this._screenItemsLen
  cachedItemsLen,   \* this.cachedItemsLen
  maxBuffer,        \* this._maxBuffer, in hundredths
  scrollerHeight,   \* scroller.style.height
  scrollTop,        \* innerContainer.scrollTop
  hasCur,           \* 'curStartItem' in this
  curStartItem,     \* this.curStartItem
  lastRepaintY,     \* this._lastRepaintY
  rows,             \* .vrow children of innerContainer, in document order
  firstRow,         \* where the element this.firstRow refers to is
  pinAttached,      \* a row-0 element is a child of container
  timers,           \* pending timeouts: remaining delay of each, oldest first
  timerSet,         \* this.deleteNodesTimer holds a handle
  sinceUpdate,      \* time elapsed since update() last ran (capped)
  changes,          \* layout changes and reconfiguring calls made so far
  last,             \* the operation that ran last
  created,          \* createRow calls made by the last operation
  destructed,       \* elements the last operation passed to destructorFn
  threw             \* the last operation ended in an exception

vars == << pinFirstRow, itemsLen, viewportHeight, rowNatural, itemHeight,
           totalRows, screenItemsLen, cachedItemsLen, maxBuffer,
           scrollerHeight, scrollTop, hasCur, curStartItem, lastRepaintY,
           rows, firstRow, pinAttached, timers, timerSet, sinceUpdate,
           changes, last, created, destructed, threw >>

envVars == << pinFirstRow, itemsLen, viewportHeight, rowNatural >>

\* The widget as one record, so that the nested calls compose.
Self ==
  [ pin |-> pinFirstRow, itemsLen |-> itemsLen, vh |-> viewportHeight,
    rowNatural |-> rowNatural, itemHeight |-> itemHeight,
    totalRows |-> totalRows, screenItemsLen |-> screenItemsLen,
    cachedItemsLen |-> cachedItemsLen, maxBuffer |-> maxBuffer,
    scrollerHeight |-> scrollerHeight, scrollTop |-> scrollTop,
    hasCur |-> hasCur, curStartItem |-> curStartItem,
    lastRepaintY |-> lastRepaintY, rows |-> rows, firstRow |-> firstRow,
    pinAttached |-> pinAttached, timers |-> timers, timerSet |-> timerSet,
    sinceUpdate |-> sinceUpdate, created |-> 0, destructed |-> 0,
    threw |-> FALSE ]

None == [kind |-> "none"]

\* ------------------------------------------------------------ queries
\* getRowIndexAt(y)
GetRowIndexAt(w, y) ==
  LET idx == JsFloorDiv(y + w.scrollTop, w.itemHeight)
  IN IF Finite(idx) /\ idx < w.totalRows THEN idx ELSE NotFound

\* the scan of getRow: position of the first .vrow child of innerContainer
\* with parseInt(style.top) / itemHeight == index, 0 when there is none
GetRowPos(w, index) ==
  LET hit == { p \in DOMAIN w.rows :
                 /\ w.itemHeight # 0
                 /\ ParseInt(w.rows[p].top) = index * w.itemHeight }
  IN IF hit = {} THEN 0 ELSE CHOOSE p \in hit : \A q \in hit : p <= q

\* position in the pool of the element this.firstRow refers to
FirstRowPos(w) ==
  LET hit == { p \in DOMAIN w.rows : w.rows[p].first }
  IN IF hit = {} THEN 0 ELSE CHOOSE p \in hit : TRUE

\* getRow(index): what the caller gets back
GetRow(w, index) ==
  IF index = 0 /\ w.pin
  THEN IF w.firstRow = "none" THEN None
       ELSE IF w.firstRow = "pool"
            THEN [kind |-> "pool", pos |-> FirstRowPos(w)]
            ELSE [kind |-> w.firstRow]
  ELSE IF GetRowPos(w, index) = 0 THEN None
       ELSE [kind |-> "pool", pos |-> GetRowPos(w, index)]

\* ---------------------------------------------------------- operations
\* the element createRow(i) returns
NewRow(w, i) ==
  [ idx |-> i, top |-> i * w.itemHeight, rm |-> FALSE,
    first |-> (w.pin /\ i = 0) ]

Unref(rs) == [ p \in DOMAIN rs |-> [rs[p] EXCEPT !.first = FALSE] ]

\* createRow(i)'s effect on the widget; `where` is where the caller puts
\* the element it gets: "pool", "container" or "detached"
CreateRow(w, i, where) ==
  [ w EXCEPT !.created = @ + 1,
             !.firstRow = IF w.pin /\ i = 0 THEN where ELSE @,
             !.rows = IF w.pin /\ i = 0 THEN Unref(@) ELSE @ ]

\* the rows i of from..(to-1) that _renderChunk creates, in order
Fragment(w, from, to) ==
  LET cand == [ k \in 1..Max(to - from, 0) |-> from + k - 1 ]
      Wanted(i) ==
        /\ ~(i = 0 /\ w.firstRow # "none" /\ w.pin)
        /\ \/ ~w.hasCur
           \/ i < w.curStartItem
           \/ i >= w.curStartItem + w.cachedItemsLen
  IN SelectSeq(cand, Wanted)

TagAt(rs, hits) ==
  [ p \in DOMAIN rs |-> IF p \in hits THEN [rs[p] EXCEPT !.rm = TRUE]
                                        ELSE rs[p] ]

\* _renderChunk without its "this.curStartItem = from"
RenderChunkNoAnchor(w, from) ==
  LET finalItem == Min(from + w.cachedItemsLen, w.totalRows)
      frag == Fragment(w, from, finalItem)
      makes0 == w.pin /\ Len(frag) > 0 /\ frag[1] = 0
      w1 == [ w EXCEPT !.created = @ + Len(frag),
                       !.firstRow = IF makes0 THEN "pool" ELSE @,
                       !.rows = IF makes0 THEN Unref(@) ELSE @ ]
  IN [ w1 EXCEPT
         !.rows = @ \o [ k \in DOMAIN frag |-> NewRow(w, frag[k]) ] ]

\* _renderChunk(node, from)
RenderChunk(w, from) ==
  LET finalItem == Min(from + w.cachedItemsLen, w.totalRows)
      frag == Fragment(w, from, finalItem)
      makes0 == w.pin /\ Len(frag) > 0 /\ frag[1] = 0
      w1 == [ w EXCEPT !.created = @ + Len(frag),
                       !.firstRow = IF makes0 THEN "pool" ELSE @,
                       !.rows = IF makes0 THEN Unref(@) ELSE @ ]
      Trimmed(i) == ~(i = 0 /\ w.pin) /\ GetRowPos(w1, i) # 0
      startTrim == IF w.hasCur
                   THEN { i \in Max(w.curStartItem, 0)..(from - 1) : Trimmed(i) }
                   ELSE {}
      endTrim == IF w.hasCur
                 THEN { i \in finalItem..(w.curStartItem + w.cachedItemsLen - 1) :
                          Trimmed(i) }
                 ELSE {}
      hits == { GetRowPos(w1, i) : i \in startTrim \cup endTrim }
  IN [ w1 EXCEPT
         !.rows = TagAt(@, hits) \o [ k \in DOMAIN frag |-> NewRow(w, frag[k]) ],
         !.hasCur = TRUE,
         !.curStartItem = from ]

\* deleteNodes without its clearTimeout
DeleteNodesNoClear(w) ==
  [ w EXCEPT !.timers = Append(@, Quiescence), !.timerSet = TRUE ]

\* deleteNodes(): cancel the pending timeout, start a new one
DeleteNodes(w) ==
  [ w EXCEPT
      !.timers = Append(IF w.timerSet /\ Len(@) > 0
                        THEN SubSeq(@, 1, Len(@) - 1) ELSE @, Quiescence),
      !.timerSet = TRUE ]

\* the staleness test re-rendering on every move of the offset
IsStaleOnAnyMove(w, force) ==
  \/ force
  \/ ~w.hasCur
  \/ w.scrollTop # w.lastRepaintY

\* the staleness test of update()
IsStale(w, force) ==
  \/ force
  \/ ~w.hasCur
  \/ ExceedsBuffer(w.scrollTop - w.lastRepaintY, w.maxBuffer)

\* the first row, without the screen of rows kept above the viewport
FirstItemNoLead(w) ==
  Max(0, JsFloorDiv(w.scrollTop, w.itemHeight))

\* the first row update() hands to _renderChunk
FirstItem(w) ==
  Max(0, JsFloorDiv(w.scrollTop, w.itemHeight) - w.screenItemsLen)

RECURSIVE Update(_, _), HeightChanged(_), RowsPossiblyChanged(_)

\* rowsPossiblyChanged without its "innerContainer.removeChild(row)"
RowsPossiblyChangedKeepsProbe(w) ==
  LET w1 == [w EXCEPT !.totalRows = w.itemsLen]
      measured == [ CreateRow(w1, 0, "pool")
                      EXCEPT !.itemHeight = w.rowNatural,
                             !.rows = Append(@, NewRow(w1, 0)) ]
  IN IF w1.itemHeight = 0 /\ w1.totalRows # 0
     THEN IF measured.itemHeight = 0 THEN measured
          ELSE HeightChanged(measured)
     ELSE IF w1.totalRows # w.totalRows /\ w1.itemHeight # 0
          THEN HeightChanged(w1)
     ELSE IF /\ w1.totalRows # 0 /\ w1.itemHeight # 0
             /\ ~Truthy(w1.screenItemsLen) /\ w1.vh > 0
          THEN HeightChanged(w1)
     ELSE w1

\* rowsPossiblyChanged()
RowsPossiblyChanged(w) ==
  LET w1 == [w EXCEPT !.totalRows = w.itemsLen]
      measured == [ CreateRow(w1, 0, "detached")
                      EXCEPT !.itemHeight = w.rowNatural ]
  IN IF w1.itemHeight = 0 /\ w1.totalRows # 0
     THEN IF measured.itemHeight = 0 THEN measured
          ELSE HeightChanged(measured)
     ELSE IF w1.totalRows # w.totalRows /\ w1.itemHeight # 0
          THEN HeightChanged(w1)
     ELSE IF /\ w1.totalRows # 0 /\ w1.itemHeight # 0
             /\ ~Truthy(w1.screenItemsLen) /\ w1.vh > 0
          THEN HeightChanged(w1)
     ELSE w1

\* heightChanged()
HeightChanged(w) ==
  LET s == JsCeilDiv(w.vh, w.itemHeight)
      sh == w.itemHeight * w.totalRows
  IN Update([ w EXCEPT !.screenItemsLen = s,
                       !.cachedItemsLen = JsTimes(s, CacheFactor),
                       !.maxBuffer = JsMaxBuffer(s, w.itemHeight),
                       !.scrollerHeight = sh,
                       !.scrollTop = ClampScroll(@, sh, w.vh) ], FALSE)

\* update(force)
Update(w, force) ==
  LET w1 == [RowsPossiblyChanged(w) EXCEPT !.sinceUpdate = 0]
      w2 == IF /\ IsStale(w1, force)
               /\ w1.itemHeight > 0 /\ Truthy(w1.screenItemsLen)
            THEN [ RenderChunk(w1, FirstItem(w1))
                     EXCEPT !.lastRepaintY = w1.scrollTop ]
            ELSE w1
  IN DeleteNodes(w2)

\* setRowHeight without its guard
SetRowHeightUnguarded(w, v) ==
  LET topRow == GetRowIndexAt(w, 0)
  IN HeightChanged([ w EXCEPT
       !.itemHeight = v,
       !.scrollTop = ClampScroll(v * topRow, w.scrollerHeight, w.vh) ])

\* setRowHeight(v)
SetRowHeight(w, v) ==
  IF v <= 0 \/ v = w.itemHeight THEN w
  ELSE LET topRow == GetRowIndexAt(w, 0)
       IN HeightChanged([ w EXCEPT
            !.itemHeight = v,
            !.scrollTop = ClampScroll(v * topRow, w.scrollerHeight, w.vh) ])

\* ensureRowVisible scrolling down to the row's top, not to its bottom
EnsureRowVisibleToTop(w, row) ==
  LET top == row * w.itemHeight
      bottom == top + w.itemHeight
  IN IF top < w.scrollTop
     THEN [w EXCEPT !.scrollTop = ClampScroll(top, w.scrollerHeight, w.vh)]
     ELSE IF bottom > w.scrollTop + w.vh
          THEN [w EXCEPT !.scrollTop =
                  ClampScroll(top - w.vh, w.scrollerHeight, w.vh)]
          ELSE w

\* ensureRowVisible(row)
EnsureRowVisible(w, row) ==
  LET top == row * w.itemHeight
      bottom == top + w.itemHeight
  IN IF top < w.scrollTop
     THEN [w EXCEPT !.scrollTop = ClampScroll(top, w.scrollerHeight, w.vh)]
     ELSE IF bottom > w.scrollTop + w.vh
          THEN [w EXCEPT !.scrollTop =
                  ClampScroll(top - w.vh + w.itemHeight, w.scrollerHeight, w.vh)]
          ELSE w

\* rebuild pinning a row without its "if (this.totalRows > 0)"
RebuildAlwaysPins(w) ==
  LET w0 == [ w EXCEPT
                !.rows = [ p \in DOMAIN @ |-> [@[p] EXCEPT !.rm = TRUE] ],
                !.hasCur = FALSE,
                !.curStartItem = 0 ]
      w1 == RowsPossiblyChanged(w0)
      dropped ==
        IF w1.firstRow = "container"
        THEN [w1 EXCEPT !.pinAttached = FALSE, !.firstRow = "none"]
        ELSE IF w1.firstRow = "pool"
        THEN [ w1 EXCEPT
                 !.rows = SelectSeq(@, LAMBDA r : ~r.first),
                 !.firstRow = "none" ]
        ELSE w1
      repinned ==
        [CreateRow(dropped, 0, "container") EXCEPT !.pinAttached = TRUE]
  IN IF ~w1.pin THEN Update(w1, TRUE)
     ELSE IF w1.firstRow = "detached"
          THEN [w1 EXCEPT !.threw = TRUE]
          ELSE Update(repinned, TRUE)

\* rebuild()
Rebuild(w) ==
  LET w0 == [ w EXCEPT
                !.rows = [ p \in DOMAIN @ |-> [@[p] EXCEPT !.rm = TRUE] ],
                !.hasCur = FALSE,
                !.curStartItem = 0 ]
      w1 == RowsPossiblyChanged(w0)
      dropped ==
        IF w1.firstRow = "container"
        THEN [w1 EXCEPT !.pinAttached = FALSE, !.firstRow = "none"]
        ELSE IF w1.firstRow = "pool"
        THEN [ w1 EXCEPT
                 !.rows = SelectSeq(@, LAMBDA r : ~r.first),
                 !.firstRow = "none" ]
        ELSE w1
      repinned ==
        IF dropped.totalRows > 0
        THEN [CreateRow(dropped, 0, "container") EXCEPT !.pinAttached = TRUE]
        ELSE dropped
  IN IF ~w1.pin THEN Update(w1, TRUE)
     ELSE IF w1.firstRow = "detached"
          \* firstRow.parentElement is null: removeChild of null throws
          THEN [w1 EXCEPT !.threw = TRUE]
          ELSE Update(repinned, TRUE)

\* the timeout callback selecting '.vrow' instead of '.vrow[data-rm="1"]'
RemoveEveryNode(w) ==
  [ w EXCEPT !.rows = << >>, !.destructed = @ + Len(w.rows) ]

\* the timeout callback hiding the stale elements without removing them
RemoveNothing(w) ==
  LET bad == { p \in DOMAIN w.rows : w.rows[p].rm }
  IN [ w EXCEPT !.destructed = @ + Cardinality(bad) ]

\* the timeout callback of deleteNodes
RemoveBadNodes(w) ==
  LET bad == { p \in DOMAIN w.rows : w.rows[p].rm }
  IN [ w EXCEPT !.rows = SelectSeq(@, LAMBDA r : ~r.rm),
                !.destructed = @ + Cardinality(bad) ]

\* ------------------------------------------------------------- actions
Begin == Self

\* the widget's fields after an operation that left it as w
Commit(w, op) ==
  /\ Len(w.rows) <= MaxPool
  /\ itemHeight' = w.itemHeight
  /\ totalRows' = w.totalRows
  /\ screenItemsLen' = w.screenItemsLen
  /\ cachedItemsLen' = w.cachedItemsLen
  /\ maxBuffer' = w.maxBuffer
  /\ scrollerHeight' = w.scrollerHeight
  /\ scrollTop' = w.scrollTop
  /\ hasCur' = w.hasCur
  /\ curStartItem' = w.curStartItem
  /\ lastRepaintY' = w.lastRepaintY
  /\ rows' = w.rows
  /\ firstRow' = w.firstRow
  /\ pinAttached' = w.pinAttached
  /\ timers' = w.timers
  /\ timerSet' = w.timerSet
  /\ sinceUpdate' = w.sinceUpdate
  /\ created' = w.created
  /\ destructed' = w.destructed
  /\ threw' = w.threw
  /\ last' = op

\* a layout change or a call that reconfigures the widget, within the
\* budget of the run
Change ==
  /\ changes < MaxChanges
  /\ changes' = changes + 1

\* new VirtualList(config), the container not yet in the document
Init ==
  /\ pinFirstRow \in BOOLEAN
  /\ itemsLen \in ItemCounts
  /\ itemHeight \in {0} \cup Heights
  /\ viewportHeight = 0
  /\ rowNatural = 0
  /\ totalRows = itemsLen
  /\ screenItemsLen = 0
  /\ cachedItemsLen = NaN
  /\ maxBuffer = NaN
  /\ scrollerHeight = itemHeight * totalRows
  /\ scrollTop = 0
  /\ hasCur = FALSE
  /\ curStartItem = 0
  /\ lastRepaintY = 0
  /\ rows = << >>
  /\ firstRow = IF pinFirstRow /\ totalRows > 0 THEN "container" ELSE "none"
  /\ pinAttached = (pinFirstRow /\ totalRows > 0)
  /\ timers = << >>
  /\ timerSet = FALSE
  /\ sinceUpdate = 0
  /\ last = "new"
  /\ created = IF pinFirstRow /\ totalRows > 0 THEN 1 ELSE 0
  /\ changes = 0
  /\ destructed = 0
  /\ threw = FALSE

\* update(force): the scroll listener (force absent) or the caller;
\* "update2" marks an update(false) that directly follows an update(false)
DoUpdate(force) ==
  /\ UNCHANGED changes
  /\ Commit(Update(Begin, force),
            IF force THEN "updateForce"
            ELSE IF last \in {"update", "update2"} THEN "update2" ELSE "update")
  /\ UNCHANGED envVars

\* the host lays the container out with a new height; the resize detector
\* calls heightChanged()
Resize(v) ==
  /\ Change
  /\ v # viewportHeight
  /\ viewportHeight' = v
  /\ Commit(HeightChanged([ Begin EXCEPT
                              !.vh = v,
                              !.scrollTop = ClampScroll(@, scrollerHeight, v) ]),
            "resize")
  /\ UNCHANGED << pinFirstRow, itemsLen, rowNatural >>

\* the host lays rows out (0: not laid out); read only by the measurement,
\* so it takes nothing from the budget of changes
Layout(m) ==
  /\ UNCHANGED changes
  /\ itemHeight = 0
  /\ m # rowNatural
  /\ rowNatural' = m
  /\ Commit(Self, "env")
  /\ UNCHANGED << pinFirstRow, itemsLen, viewportHeight >>

\* the caller adds rows to or removes rows from items
SetItems(n) ==
  /\ Change
  /\ n # itemsLen
  /\ itemsLen' = n
  /\ Commit(Self, "env")
  /\ UNCHANGED << pinFirstRow, viewportHeight, rowNatural >>

\* the user scrolls
ScrollTo(s) ==
  /\ UNCHANGED changes
  /\ s # scrollTop
  /\ s <= MaxScrollTop(scrollerHeight, viewportHeight)
  /\ Commit([Self EXCEPT !.scrollTop = s], "env")
  /\ UNCHANGED envVars

DoSetRowHeight(v) ==
  /\ Change
  /\ Commit(SetRowHeight(Begin, v), "setRowHeight")
  /\ UNCHANGED envVars

DoEnsureRowVisible(i) ==
  /\ Change
  /\ Commit(EnsureRowVisible(Self, i), "ensureRowVisible")
  /\ UNCHANGED envVars

DoRebuild ==
  /\ Change
  /\ Commit(Rebuild(Begin), "rebuild")
  /\ UNCHANGED envVars

\* time passes, no further than the next timeout
Advance(d) ==
  /\ UNCHANGED changes
  /\ timers # << >>
  /\ \A k \in DOMAIN timers : timers[k] >= d
  /\ Commit([ Self EXCEPT
                !.timers = [ k \in DOMAIN @ |-> @[k] - d ],
                !.sinceUpdate = Min(@ + d, Quiescence) ], "env")
  /\ UNCHANGED envVars

\* the oldest timeout is due: its callback runs
DeleteNodesTimeout ==
  /\ UNCHANGED changes
  /\ timers # << >>
  /\ Head(timers) = 0
  /\ Commit(RemoveBadNodes([Begin EXCEPT !.timers = Tail(@)]), "cleanup")
  /\ UNCHANGED envVars

\* no event for the quiescence interval: the pending timeout comes due and
\* its callback runs
Quiesce ==
  /\ Len(timers) = 1
  /\ Commit(RemoveBadNodes([ Begin EXCEPT
                               !.timers = << >>,
                               !.sinceUpdate = Quiescence ]), "cleanup")
  /\ UNCHANGED envVars
  /\ UNCHANGED changes

Next ==
  \/ \E force \in BOOLEAN : DoUpdate(force)
  \/ \E v \in Viewports : Resize(v)
  \/ \E m \in {0, MaxHeight} : Layout(m)
  \/ \E n \in ItemCounts : SetItems(n)
  \/ \E s \in Offsets : ScrollTo(s)
  \/ \E v \in AskedHeights : DoSetRowHeight(v)
  \/ \E i \in AskedRows : DoEnsureRowVisible(i)
  \/ DoRebuild
  \/ Quiesce

Spec == Init /\ [][Next]_vars

\* ------------------------------------------------- vocabulary of claims
\* RowHeight is fixed and a screen holds at least one row
Ready == itemHeight > 0 /\ Truthy(screenItemsLen) /\ Finite(screenItemsLen)

\* update() was the operation that ran last, called by the scroll listener
\* or by the caller
AfterUpdate == last \in {"update", "update2", "updateForce"}

\* the end of the rendered window [curStartItem, WindowEnd)
WindowEnd == Min(curStartItem + cachedItemsLen, totalRows)

InWindow(i) == hasCur /\ curStartItem <= i /\ i < WindowEnd

\* the rows a pixel of the visible band 0 <= y < viewportHeight lies on
VisibleRows ==
  { GetRowIndexAt(Self, y) : y \in 0..(viewportHeight - 1) } \ {NotFound}

\* C1 (as claimed): after an update() in the ready state every row under a
\* pixel of the visible band lies inside the rendered window
C1_VisibleRowsInWindow ==
  (AfterUpdate /\ Ready) => \A i \in VisibleRows : InWindow(i)

\* the elements the step appended to innerContainer
Appended == SubSeq(rows', Len(rows) + 1, Len(rows'))

\* the step is update(force) finding the window stale in the ready state
StaleUpdate(force) ==
  /\ last' \in (IF force THEN {"updateForce"} ELSE {"update", "update2"})
  /\ LET w == RowsPossiblyChanged(Self)
     IN /\ IsStale(w, force)
        /\ w.itemHeight > 0 /\ Truthy(w.screenItemsLen)

\* the window of the claim, stated without the model's own arithmetic
WindowAsClaimed ==
  /\ hasCur
  /\ (screenItemsLen - 1) * itemHeight < viewportHeight
  /\ viewportHeight <= screenItemsLen * itemHeight
  /\ cachedItemsLen = screenItemsLen + screenItemsLen + screenItemsLen
  /\ lastRepaintY = scrollTop
  /\ IF scrollTop < (screenItemsLen + 1) * itemHeight
     THEN curStartItem = 0
     ELSE /\ (curStartItem + screenItemsLen) * itemHeight <= scrollTop
          /\ scrollTop < (curStartItem + screenItemsLen + 1) * itemHeight

\* the scenario of the claim: 1000 rows of 20 in a viewport of 200, at 400
ScenarioWindow ==
  LET w == [ scrollTop |-> 400, itemHeight |-> 20,
             screenItemsLen |-> JsCeilDiv(200, 20) ]
  IN /\ w.screenItemsLen = 10
     /\ JsTimes(w.screenItemsLen, CacheFactor) = 30
     /\ FirstItem(w) = 10
     /\ Min(FirstItem(w) + JsTimes(w.screenItemsLen, CacheFactor), 1000) = 40

LivePool == { p \in DOMAIN rows : ~rows[p].rm /\ ~rows[p].first }

\* live elements of the rendered window, row 0 counted as covered by the
\* pinned row when pinning is on
LiveCount ==
  Cardinality(LivePool) + (IF pinFirstRow /\ InWindow(0) THEN 1 ELSE 0)

\* C3 (as claimed): after a non-aborted update() the number of live
\* elements is min(CachedItemsLen, totalRows - curStartItem)
C3_LiveCountIsWindowSize ==
  (AfterUpdate /\ Ready) =>
     LiveCount = Min(cachedItemsLen, totalRows - curStartItem)

\* C4 (as claimed): after a non-aborted update() every live element of row
\* i sits at i * RowHeight, for the current RowHeight
C4_LiveRowsAtIndexTimesHeight ==
  (AfterUpdate /\ Ready) =>
     \A p \in DOMAIN rows :
        ~rows[p].rm => rows[p].top = rows[p].idx * itemHeight

\* C5 (as claimed): update(false) directly after update(false) creates no
\* row element, tags none, removes none and leaves the window anchor and
\* the last rendered offset alone
C5_SecondUpdateChangesNothing ==
  [][ (last \in {"update", "update2"} /\ last' = "update2") =>
        /\ created' = 0
        /\ rows' = rows
        /\ hasCur' = hasCur /\ curStartItem' = curStartItem
        /\ lastRepaintY' = lastRepaintY ]_vars

\* C5 (amended): the same, from a state in which RowHeight is known or the
\* collection is empty
C5_SecondUpdateChangesNothingOnceMeasured ==
  [][ ( /\ last \in {"update", "update2"} /\ last' = "update2"
        /\ (itemHeight > 0 \/ totalRows = 0) ) =>
        /\ created' = 0
        /\ rows' = rows
        /\ hasCur' = hasCur /\ curStartItem' = curStartItem
        /\ lastRepaintY' = lastRepaintY ]_vars

\* a second update(false) ran on a rendered window scrolled away from the
\* top, with stale elements still attached
C5_Witness ==
  /\ last = "update2" /\ Ready /\ hasCur /\ curStartItem > 0
  /\ \E p \in DOMAIN rows : rows[p].rm
  /\ \E p \in DOMAIN rows : ~rows[p].rm

\* row i's span [i * RowHeight, (i + 1) * RowHeight) lies within
\* [scrollOffset, scrollOffset + viewportHeight)
FullyVisible(i, offset) ==
  /\ offset <= i * itemHeight
  /\ (i + 1) * itemHeight <= offset + viewportHeight

\* what the claim says ensureRowVisible(i) does to the scroll offset
EnsuredAsClaimed(i) ==
  /\ FullyVisible(i, scrollTop')
  /\ FullyVisible(i, scrollTop) => scrollTop' = scrollTop
  /\ i * itemHeight < scrollTop => scrollTop' = i * itemHeight
  /\ (~FullyVisible(i, scrollTop) /\ i * itemHeight >= scrollTop) =>
        scrollTop' = (i + 1) * itemHeight - viewportHeight

TopRow == GetRowIndexAt(Self, 0)

\* C7 (as claimed): setRowHeight(h), h > 0, in the ready state keeps the
\* index of the topmost visible row; stated for the top rows that the list,
\* once its rows are h high, can still be scrolled to
C7_SetRowHeightKeepsTopRow ==
  [][ \A v \in Heights :
        ( /\ DoSetRowHeight(v) /\ Ready
          /\ v * TopRow <= MaxScrollTop(v * totalRows, viewportHeight) ) =>
           TopRow' = TopRow ]_vars

\* every field of the widget, the pending timeout included
widgetVars ==
  << itemHeight, totalRows, screenItemsLen, cachedItemsLen, maxBuffer,
     scrollerHeight, scrollTop, hasCur, curStartItem, lastRepaintY, rows,
     firstRow, pinAttached, timers, timerSet >>

\* C8: setRowHeight(v) with v <= 0 or v = RowHeight changes nothing, and
\* once RowHeight is positive it stays positive
C8_SetRowHeightNoOp ==
  [][ /\ \A v \in AskedHeights :
           (DoSetRowHeight(v) /\ (v <= 0 \/ v = itemHeight)) =>
              UNCHANGED widgetVars
      /\ itemHeight > 0 => itemHeight' > 0 ]_vars

\* setRowHeight returned without a call of update(): no timeout is pending
\* after it, on a widget that has rendered rows
C8_Witness ==
  /\ last = "setRowHeight" /\ timers = << >> /\ timerSet
  /\ Ready /\ hasCur /\ rows # << >>

\* C9 (as claimed): getRow(i) returns a live attached element of row i when
\* i is in the rendered window and none otherwise, so never a stale one (the
\* pinned row, kept outside the window, is left out)
C9_GetRowLiveInWindowElseNone ==
  \A i \in 0..(MaxItems - 1) :
     (i # 0 \/ ~pinFirstRow) =>
        LET r == GetRow(Self, i)
        IN IF InWindow(i)
           THEN /\ r.kind = "pool"
                /\ rows[r.pos].idx = i
                /\ ~rows[r.pos].rm
           ELSE r = None

\* ------------------------------------------------- the timer in detail
\* The same widget with time passing in steps shorter than the quiescence
\* interval, for one configuration.
InitTimer ==
  /\ Init
  /\ ~pinFirstRow /\ itemsLen = MaxItems /\ itemHeight = MaxHeight

NextTimer ==
  \/ DoUpdate(FALSE)
  \/ \E v \in Viewports : Resize(v)
  \/ \E n \in ItemCounts : SetItems(n)
  \/ \E s \in Offsets : ScrollTo(s)
  \/ \E d \in {Quiescence \div 10, Quiescence - Quiescence \div 10} : Advance(d)
  \/ DeleteNodesTimeout

SpecTimer == InitTimer /\ [][NextTimer]_vars

\* the operations that end in update()
UpdateRan ==
  \/ last \in {"update", "update2", "updateForce", "resize"}
  \/ last = "rebuild" /\ ~threw

\* C10: every update() cancels the pending cleanup timer and starts a new
\* one, so at most one is pending in any state, and cleanup never runs less
\* than the quiescence interval after the most recent update()
C10_OneTimerRestartedByUpdate ==
  /\ [](Len(timers) <= 1)
  /\ [][ /\ UpdateRan' /\ ~UNCHANGED vars => timers' = << Quiescence >>
         /\ last' = "cleanup" /\ ~UNCHANGED vars =>
               /\ sinceUpdate >= Quiescence
               /\ timers' = << >> ]_vars

\* cleanup ran once the updates had paused, removed the stale elements and
\* left no timer pending
C10_Witness ==
  /\ last = "cleanup" /\ destructed > 0
  /\ timers = << >> /\ sinceUpdate = Quiescence

\* ------------------------------------------------------------ cleanup
\* the elements of the pool tagged stale, and those that are not
StaleRows == SelectSeq(rows, LAMBDA r : r.rm)
KeptRows == SelectSeq(rows, LAMBDA r : ~r.rm)

\* C11: when the cleanup timer fires, every element tagged stale is passed
\* to the destructor and removed, no live element is removed or passed to
\* the destructor, and the pinned row stays where it is
C11_CleanupRemovesExactlyStale ==
  [][ last' = "cleanup" =>
        /\ rows' = KeptRows
        /\ destructed' = Len(StaleRows)
        /\ firstRow' = firstRow /\ pinAttached' = pinAttached
        /\ firstRow = "pool" => \E p \in DOMAIN rows' : rows'[p].first ]_vars

\* cleanup removed stale elements and left live ones, the pinned row
\* attached
C11_Witness ==
  /\ last = "cleanup" /\ destructed > 1
  /\ rows # << >> /\ pinFirstRow /\ firstRow # "none"

\* --------------------------------------------------------- the pinned row
\* C12 (as claimed): with pinFirstRow and totalRows > 0, the element
\* this.firstRow refers to is attached to the view tree and not tagged
\* stale, and no pool element of the window stands for row 0
C12_PinnedRowAttachedOutsidePool ==
  (pinFirstRow /\ totalRows > 0) =>
     /\ firstRow = "container" /\ pinAttached
     /\ \A p \in DOMAIN rows : rows[p].idx # 0

\* the list is empty and holds no element, as an empty list is constructed
EmptyList ==
  /\ itemsLen = 0 /\ totalRows = 0
  /\ rows = << >> /\ firstRow = "none" /\ ~pinAttached

\* C13: a list constructed with totalRows = 0 holds no row element and no
\* pinned row, and update(), a resize and rebuild() on it create none
C13_EmptyListCreatesNothing ==
  /\ []((last = "new" /\ totalRows = 0) => (EmptyList /\ created = 0))
  /\ [][ ( /\ EmptyList
           /\ last' \in {"update", "update2", "updateForce", "resize",
                          "rebuild"} ) =>
           (EmptyList' /\ created' = 0 /\ ~threw') ]_vars

\* rebuild() ran on an empty list with pinFirstRow, laid out with a known
\* RowHeight: the window is anchored and empty
C13_Witness ==
  /\ last = "rebuild" /\ pinFirstRow /\ EmptyList
  /\ itemHeight > 0 /\ viewportHeight > 0 /\ hasCur

\* ------------------------------------------------- a shrinking collection
\* the caller removed rows and the widget has not seen it yet; the window
\* was rendered where the list is scrolled to, so far down that the host
\* will clamp the offset once the spacer is resized
ShrunkNearBottom ==
  /\ Ready /\ hasCur /\ lastRepaintY = scrollTop
  /\ 0 < itemsLen /\ itemsLen < totalRows
  /\ scrollTop > MaxScrollTop(itemHeight * itemsLen, viewportHeight)

\* C14 (as claimed): the update() that follows such a shrink leaves the
\* live window [max(0, totalRows - CachedItemsLen), totalRows), no live
\* element for a row >= totalRows, and the pinned row attached
C14_ShrinkClipsWindow ==
  [][ (ShrunkNearBottom /\ last' \in {"update", "update2"}) =>
        /\ totalRows' = itemsLen
        /\ hasCur'
        /\ curStartItem' = Max(0, totalRows' - cachedItemsLen')
        /\ \A p \in DOMAIN rows' :
              ~rows'[p].rm =>
                 (curStartItem' <= rows'[p].idx /\ rows'[p].idx < totalRows')
        /\ (pinFirstRow /\ totalRows' > 0 /\ firstRow = "container") =>
              (firstRow' = "container" /\ pinAttached') ]_vars

\* ------------------------------------------------ the lazy measurement
\* RowHeight is unknown and there is a row to measure
Unmeasured == itemHeight = 0 /\ itemsLen > 0

\* every row of the window has a live element, row 0 being the pinned
\* row's when pinning is on
WindowMaterialized ==
  /\ hasCur
  /\ \A i \in curStartItem..(WindowEnd - 1) :
        \/ i = 0 /\ pinFirstRow
        \/ \E p \in DOMAIN rows : rows[p].idx = i /\ ~rows[p].rm

\* C15: an update() whose measurement returns 0 raises no error, leaves
\* RowHeight unknown, attaches nothing and sets no window anchor; an
\* update() whose measurement returns a positive height, the viewport
\* having a height, fixes RowHeight and materializes the window
C15_MeasurementRetriedUntilLaidOut ==
  [][ (Unmeasured /\ last' \in {"update", "update2", "updateForce"}) =>
        /\ ~threw'
        /\ rowNatural = 0 =>
              /\ itemHeight' = 0
              /\ rows' = rows /\ rows' = << >>
              /\ ~hasCur'
        /\ (rowNatural > 0 /\ viewportHeight > 0) =>
              /\ itemHeight' = rowNatural
              /\ Ready'
              /\ WindowMaterialized'
              /\ \E p \in DOMAIN rows' : ~rows'[p].rm ]_vars

\* the update() that measured a laid-out row: the measurement row and the
\* window's rows were created in it
C15_Witness ==
  /\ AfterUpdate /\ rowNatural > 0 /\ itemHeight = rowNatural
  /\ WindowMaterialized /\ rows # << >>
  /\ created = Len(rows) + 1

\* ------------------------------------------------------------ hysteresis
\* the step is an update(), called by the scroll listener, by the caller
\* or, through heightChanged(), by the resize listener
UpdateStep == last' \in {"update", "update2", "updateForce", "resize"}

\* the staleness criteria of the step, on the window as it was before the
\* step and the offset and MaxBuffer the update reads
StaleAsClaimed ==
  \/ ~hasCur
  \/ last' = "updateForce"
  \/ Abs(scrollTop' - lastRepaintY) * 100 >
        BufferPct * screenItemsLen' * itemHeight'

\* C16: in the ready state update(force) re-renders the window if and only
\* if there is no window anchor, or force is true, or the offset is more
\* than MaxBuffer = 0.66 * ScreenItemsLen * RowHeight from the last
\* rendered offset; otherwise the anchor, the last rendered offset and the
\* attached elements with their tags stay as they are
C16_RerenderIffStale ==
  [][ (UpdateStep /\ Ready') =>
        IF StaleAsClaimed
        THEN /\ hasCur'
             /\ lastRepaintY' = scrollTop'
             /\ curStartItem' =
                   Max(0, scrollTop' \div itemHeight' - screenItemsLen')
        ELSE /\ curStartItem' = curStartItem
             /\ lastRepaintY' = lastRepaintY
             /\ rows' = rows ]_vars

\* an update() ran on a window rendered at another offset and left it
\* alone, stale elements of an earlier move still attached
C16_Witness ==
  /\ last \in {"update", "update2"} /\ Ready /\ hasCur
  /\ scrollTop # lastRepaintY /\ created = 0
  /\ \E p \in DOMAIN rows : rows[p].rm

\* --------------------------------------------------------------- rebuild
\* the pool elements attached before the step that the step left attached:
\* they keep their place at the head of the pool
Survivors ==
  1..(Len(rows) - (IF pinFirstRow /\ firstRow = "pool" THEN 1 ELSE 0))

\* C17 (as claimed): rebuild() from the ready state ends without an error,
\* with every element attached before it tagged stale, the pinned row
\* replaced by a new attached one, and a window anchored at
\* max(0, floor(scrollOffset / RowHeight) - ScreenItemsLen) whose rows all
\* have a live element created by the call
C17_RebuildRendersAnew ==
  [][ (Ready /\ last' = "rebuild") =>
        /\ ~threw'
        /\ \A p \in Survivors : p \in DOMAIN rows' /\ rows'[p].rm
        /\ (pinFirstRow /\ totalRows' > 0) =>
              (firstRow' = "container" /\ pinAttached')
        /\ hasCur'
        /\ curStartItem' =
              Max(0, scrollTop' \div itemHeight' - screenItemsLen')
        /\ WindowMaterialized' ]_vars

\* ------------------------------------------------------- live and stale
\* C18 (as claimed): every attached pool element that is not tagged stale
\* stands for a row of the rendered window, so every attached pool element
\* of a row outside the window is tagged stale
C18_LiveRowsAreWindowRows ==
  \A p \in DOMAIN rows :
     (~rows[p].rm /\ ~rows[p].first) => InWindow(rows[p].idx)

\* the list was laid out once and has since seen only scrolls, updates,
\* and cleanups
OnlyScrolled == Ready /\ changes = 1

\* the attached pool elements, live and stale, the pinned row left out
PoolSize == Cardinality({ p \in DOMAIN rows : ~rows[p].first })

\* C19 (as claimed): whatever scroll-triggered updates ran since the last
\* cleanup, at most 2 * CachedItemsLen pool elements are attached
C19_PoolWithinTwoWindows ==
  OnlyScrolled => PoolSize <= 2 * cachedItemsLen

\* ------------------------------------------------ the cleanup, eventually
\* Time passes and a timeout that is due runs: the host's event loop.
SpecTimerFair ==
  /\ SpecTimer
  /\ WF_vars(\E d \in {Quiescence \div 10, Quiescence - Quiescence \div 10} :
               Advance(d))
  /\ WF_vars(DeleteNodesTimeout)

\* C20: if from some point on no update() runs (none from a scroll, a
\* caller or a resize), the pending cleanup timer fires and no stale
\* element stays attached; an element leaves the pool only in a cleanup
\* that runs a full quiescence interval after the last update()
C20_CleanupOnceUpdatesPause ==
  /\ \/ []<><<UpdateStep>>_vars
     \/ <>[](timers = << >> /\ StaleRows = << >>)
  /\ [][ Len(rows') < Len(rows) =>
           /\ last' = "cleanup"
           /\ sinceUpdate >= Quiescence
           /\ StaleRows' = << >> ]_vars

\* the updates paused, the cleanup ran and took stale elements away; the
\* live ones are still attached
C20_Witness ==
  /\ last = "cleanup" /\ destructed > 0
  /\ StaleRows = << >> /\ KeptRows # << >>

\* ------------------------------------------------------------ uniqueness
\* C21 (as claimed): no row has two attached elements that are not tagged
\* stale
C21_OneLiveElementPerRow ==
  \A p, q \in DOMAIN rows :
     (rows[p].idx = rows[q].idx /\ ~rows[p].rm /\ ~rows[q].rm) => p = q

====
